---- MODULE Spec2Model ----
(***************************************************************************)
(* Model of the xgodo proxy (src/main.py): the upstream client, the        *)
(* task-identifier extraction, the SQLite submissions table and the five   *)
(* request handlers.  A Python str is a sequence of one-character strings; *)
(* a JSON value is a record [t, s, n, d]; Optional[str] is [some, s].      *)
(* Row timestamps (created_at) are not modelled.                           *)
(***************************************************************************)
EXTENDS Integers, Sequences, FiniteSets, TLC

\* ------------------------------------------------------------------ bounds

MaxRows == 3

\* ------------------------------------------------------------ Python values

WS == {" ", "\t", "\n"}

Digits == <<"0", "1", "2", "3", "4", "5", "6", "7", "8", "9">>

Null == [t |-> "null", s |-> <<>>, n |-> 0, d |-> <<>>]
Str(chars) == [t |-> "str", s |-> chars, n |-> 0, d |-> <<>>]
Int_(k) == [t |-> "int", s |-> <<>>, n |-> k, d |-> <<>>]
Bool(b) == [t |-> "bool", s |-> <<>>, n |-> IF b THEN 1 ELSE 0, d |-> <<>>]
Float == [t |-> "float", s |-> <<>>, n |-> 0, d |-> <<>>]
Dict(f) == [t |-> "dict", s |-> <<>>, n |-> 0, d |-> f]

None == [some |-> FALSE, s |-> <<>>]
Some(chars) == [some |-> TRUE, s |-> chars]

RECURSIVE NatToStr(_)
NatToStr(k) ==
    IF k < 10 THEN <<Digits[k + 1]>>
    ELSE Append(NatToStr(k \div 10), Digits[(k % 10) + 1])

\* str(v) for v a str, an int or a bool (bool is a subclass of int).
PyStr(v) ==
    CASE v.t = "str" -> v.s
      [] v.t = "bool" -> IF v.n = 1 THEN <<"T", "r", "u", "e">>
                         ELSE <<"F", "a", "l", "s", "e">>
      [] v.t = "int" -> IF v.n < 0 THEN <<"-">> \o NatToStr(0 - v.n)
                        ELSE NatToStr(v.n)

RECURSIVE LStrip(_)
LStrip(chars) ==
    IF chars # <<>> /\ Head(chars) \in WS THEN LStrip(Tail(chars)) ELSE chars

RECURSIVE RStrip(_)
RStrip(chars) ==
    IF chars # <<>> /\ chars[Len(chars)] \in WS
    THEN RStrip(SubSeq(chars, 1, Len(chars) - 1))
    ELSE chars

\* str.strip()
Strip(chars) == RStrip(LStrip(chars))

\* isinstance(v, (str, int))
IsStrOrInt(v) == v.t \in {"str", "int", "bool"}

\* dict.get(k)
Get(f, k) == IF k \in DOMAIN f THEN f[k] ELSE Null

\* ------------------------------------------------------- _extract_task_id

IdKeys == <<"task_id", "taskId", "id", "taskID">>
ContainerKeys == <<"task", "data", "result">>

\* isinstance(v, (str, int)) and str(v).strip()
Usable(v) == IsStrOrInt(v) /\ Strip(PyStr(v)) # <<>>

\* for k in IdKeys[i..]: first usable value of f, stripped
RECURSIVE ScanKeys(_, _)
ScanKeys(f, i) ==
    IF i > Len(IdKeys) THEN None
    ELSE IF Usable(Get(f, IdKeys[i])) THEN Some(Strip(PyStr(Get(f, IdKeys[i]))))
    ELSE ScanKeys(f, i + 1)

\* for k in ContainerKeys[i..]: first dict-valued container with a usable key
RECURSIVE ScanContainers(_, _)
ScanContainers(f, i) ==
    IF i > Len(ContainerKeys) THEN None
    ELSE IF Get(f, ContainerKeys[i]).t = "dict"
            /\ ScanKeys(Get(f, ContainerKeys[i]).d, 1).some
         THEN ScanKeys(Get(f, ContainerKeys[i]).d, 1)
         ELSE ScanContainers(f, i + 1)

\* the nested containers are scanned before the top-level keys
extract_task_id_nested_first(payload) ==
    IF payload.t = "null" THEN None
    ELSE IF IsStrOrInt(payload) THEN Some(PyStr(payload))
    ELSE IF payload.t = "dict" THEN
        IF ScanContainers(payload.d, 1).some THEN ScanContainers(payload.d, 1)
        ELSE ScanKeys(payload.d, 1)
    ELSE None

extract_task_id(payload) ==
    IF payload.t = "null" THEN None
    ELSE IF IsStrOrInt(payload) THEN Some(PyStr(payload))
    ELSE IF payload.t = "dict" THEN
        IF ScanKeys(payload.d, 1).some THEN ScanKeys(payload.d, 1)
        ELSE ScanContainers(payload.d, 1)
    ELSE None

\* ------------------------------------------------------------ request inputs

U1 == <<"u", "1">>
U1_padded == <<" ", "u", "1">>
U2 == <<"u", "2">>
J1 == <<"j", "1">>
P1 == <<"p", "1">>
T1 == <<"T", "1">>
T2 == <<"T", "2">>
T100 == <<"T", "1", "0", "0">>
T2_padded == <<" ", "T", "2", " ">>
Blank == <<" ", "\t">>

UserIds == {U1, U1_padded, U2}
JobIds == {J1}
JobProofs == {P1}
QueryTaskIds == {T1}

Procs == {1, 2}

\* ------------------------------------------------------ upstream responses

MSG_MISCONFIGURED == Str(<<"Server misconfigured: XGODO_TOKEN is not set.">>)
MSG_UNREACHABLE == Str(<<"Upstream request failed: ">>)

\* Upstream status vocabulary (spec section 3); the code never inspects it.
STATUS_SUBMITTED == <<"submitted">>
STATUS_CONFIRMED == <<"confirmed">>
STATUS_DECLINED == <<"declined">>
TERMINAL == {<<"submitted-confirmed">>, STATUS_CONFIRMED}
HIDDEN == {STATUS_DECLINED}

\* What one outbound call can meet: a transport failure (httpx.RequestError)
\* or a response with a status code and a body that is JSON or is not.
Unreachable == [transport |-> TRUE, status |-> 0, json |-> FALSE, body |-> Null]
Response(status, body) ==
    [transport |-> FALSE, status |-> status, json |-> TRUE, body |-> body]
RawResponse(status, text) ==
    [transport |-> FALSE, status |-> status, json |-> FALSE, body |-> Str(text)]

BodyTaskId == Dict([k \in {"task_id"} |-> Str(T1)])
BodyDataId == Dict([k \in {"data"} |-> Dict([kk \in {"id"} |-> Str(T1)])])
BodyOther == Dict([k \in {"task_id"} |-> Str(T2)])
BodyFoo == Dict([k \in {"foo"} |-> Str(<<"b", "a", "r">>)])
BodyT100 ==
    Dict([k \in {"submitted"} |-> Dict([kk \in {"job_task_id"} |-> Str(T100)])])
BodyError == Dict([k \in {"error"} |-> Str(<<"rejected">>)])
BodyStatus(st) == Dict([k \in {"status"} |-> Str(st)])

ApplyOutcomes ==
    << Unreachable,
       Response(404, BodyError),
       Response(204, Null),
       RawResponse(200, <<"O", "K">>),
       Response(200, Dict([k \in {"job"} |-> Str(J1)])),
       Response(502, MSG_UNREACHABLE) >>

SubmitOutcomes ==
    << Unreachable,
       Response(500, BodyError),
       Response(200, BodyTaskId),
       Response(200, BodyOther),
       Response(200, BodyT100) >>

DetailOutcomes ==
    << Unreachable,
       Response(404, BodyError),
       Response(200, BodyStatus(STATUS_SUBMITTED)),
       Response(200, BodyStatus(STATUS_CONFIRMED)),
       Response(200, BodyStatus(STATUS_DECLINED)) >>

\* ------------------------------------------------------------------- state

VARIABLES
    token,      \* XGODO_TOKEN is non-empty
    db,         \* the submissions table, in rowid order
    seq,        \* sqlite_sequence of submissions (AUTOINCREMENT)
    pc,         \* per request slot: where its handler is suspended
    req,        \* per request slot: the handler's locals
    resp,       \* the last response sent to a client
    sent,       \* the last outbound request issued to upstream
    peers,      \* per request slot: task ids inserted by others while it waits
    conns,      \* the request slots that hold an open SQLite connection
    load,       \* the request slots and inputs the service is driven with
    payload,    \* SpecExtract: the payload handed to _extract_task_id
    result      \* SpecExtract: what _extract_task_id returned (<<>> before the call)

vars ==
    <<token, db, seq, pc, req, resp, sent, peers, conns, load, payload, result>>

NoLocals ==
    [user_id |-> <<>>, job_id |-> <<>>, job_proof |-> <<>>, data |-> Null,
     task_ids |-> <<>>, missing |-> <<>>, details |-> <<>>]

NoResponse ==
    [op |-> "none", code |-> 0, cause |-> "none", detail |-> Null, body |-> <<>>]

\* JSONResponse(content=body)
Ok(op, body) ==
    [op |-> op, code |-> 200, cause |-> "none", detail |-> Null, body |-> body]

\* the response FastAPI sends for a raised HTTPException(status_code, detail)
Failed(op, r) ==
    [op |-> op, code |-> r.code, cause |-> r.cause, detail |-> r.detail,
     body |-> <<>>]

\* ----------------------------------------------------------- upstream client

NO_CONTENT == Dict([k \in {"ok", "status_code"} |->
                       IF k = "ok" THEN Bool(TRUE) ELSE Int_(204)])

NoRequest == [method |-> "none", path |-> "", params |-> <<>>, json |-> <<>>]
Request(method, path, params, json) ==
    [method |-> method, path |-> path, params |-> params, json |-> json]

Raise(code, detail, cause, issued) ==
    [raised |-> TRUE, code |-> code, detail |-> detail, cause |-> cause,
     data |-> Null, issued |-> issued]
Return(data) ==
    [raised |-> FALSE, code |-> 200, detail |-> Null, cause |-> "none",
     data |-> data, issued |-> TRUE]

\* httpx: res.is_error
is_error(status) == status >= 400 /\ status <= 599

\* _require_token / _auth_headers: raises before the request is sent
require_token_ok == token

\* the part of _xgodo_get / _xgodo_post after the call
AfterCall(o) ==
    IF o.status = 204 THEN Return(NO_CONTENT)
    ELSE LET data == IF o.json THEN o.body
                     ELSE Dict([k \in {"_raw"} |-> o.body])
         IN  IF is_error(o.status) THEN Raise(o.status, data, "upstream", TRUE)
             ELSE Return(data)

xgodo_get(o) ==
    IF ~require_token_ok THEN Raise(500, MSG_MISCONFIGURED, "config", FALSE)
    ELSE IF o.transport THEN Raise(502, MSG_UNREACHABLE, "transport", TRUE)
    ELSE AfterCall(o)

\* the credential is not checked before the request goes out
xgodo_post_unchecked(o) ==
    IF o.transport THEN Raise(502, MSG_UNREACHABLE, "transport", TRUE)
    ELSE AfterCall(o)

xgodo_post(o) ==
    IF ~require_token_ok THEN Raise(500, MSG_MISCONFIGURED, "config", FALSE)
    ELSE IF o.transport THEN Raise(502, MSG_UNREACHABLE, "transport", TRUE)
    ELSE AfterCall(o)

\* ------------------------------------------------------------------ the store

\* conn = _db_connect() by request slot p
db_connect(c, p) == c \cup {p}

\* the connection is never closed
db_close_never(c, p) == c

\* finally: conn.close()
db_close(c, p) == c \ {p}

\* json.dumps / json.loads of the upstream payload (upstream_json is TEXT)
json_dumps(v) == [text |-> v]
json_loads(txt) == txt.text

Row(id, user_id, job_id, job_proof, task_id, upstream_payload) ==
    [id |-> id, user_id |-> user_id, job_id |-> job_id,
     job_proof |-> job_proof, task_id |-> task_id,
     upstream_json |-> json_dumps(upstream_payload)]

\* the new row takes the last id handed out instead of the next one
db_insert_submission_same_id(user_id, job_id, job_proof, task_id, upstream_payload) ==
    Append(db, Row(seq, user_id, job_id, job_proof, task_id, upstream_payload))

\* INSERT INTO submissions ...; the new table
db_insert_submission(user_id, job_id, job_proof, task_id, upstream_payload) ==
    Append(db, Row(seq + 1, user_id, job_id, job_proof, task_id,
                   upstream_payload))

\* SELECT ... WHERE user_id = ? ORDER BY id DESC, as the list of dicts
RECURSIVE ListFrom(_, _)
ListFrom(user_id, i) ==
    IF i = 0 THEN <<>>
    ELSE IF db[i].user_id = user_id
         THEN <<[id |-> db[i].id, user_id |-> db[i].user_id,
                 job_id |-> db[i].job_id, job_proof |-> db[i].job_proof,
                 task_id |-> db[i].task_id,
                 upstream |-> json_loads(db[i].upstream_json)]>>
              \o ListFrom(user_id, i - 1)
         ELSE ListFrom(user_id, i - 1)

\* the SELECT has no WHERE clause: the rows of every user, newest first
RECURSIVE ListAllFrom(_)
ListAllFrom(i) ==
    IF i = 0 THEN <<>>
    ELSE <<[id |-> db[i].id, user_id |-> db[i].user_id,
            job_id |-> db[i].job_id, job_proof |-> db[i].job_proof,
            task_id |-> db[i].task_id,
            upstream |-> json_loads(db[i].upstream_json)]>>
         \o ListAllFrom(i - 1)

db_list_submissions_any_user(user_id) == ListAllFrom(Len(db))

\* the rows come back oldest first (ORDER BY id ASC)
RECURSIVE ListUpTo(_, _)
ListUpTo(user_id, i) ==
    IF i > Len(db) THEN <<>>
    ELSE IF db[i].user_id = user_id
         THEN <<[id |-> db[i].id, user_id |-> db[i].user_id,
                 job_id |-> db[i].job_id, job_proof |-> db[i].job_proof,
                 task_id |-> db[i].task_id,
                 upstream |-> json_loads(db[i].upstream_json)]>>
              \o ListUpTo(user_id, i + 1)
         ELSE ListUpTo(user_id, i + 1)

db_list_submissions_ascending(user_id) == ListUpTo(user_id, 1)

db_list_submissions(user_id) == ListFrom(user_id, Len(db))

\* the loop testing only `if tid`: a blank identifier counts as one
RECURSIVE CollectBlankAsId(_, _, _, _, _)
CollectBlankAsId(subs, i, seen, task_ids, missing) ==
    IF i > Len(subs) THEN [task_ids |-> task_ids, missing |-> missing]
    ELSE LET tid == subs[i].task_id
         IN  IF tid.some /\ tid.s # <<>>
             THEN IF Strip(tid.s) \notin seen
                  THEN CollectBlankAsId(subs, i + 1, seen \cup {Strip(tid.s)},
                               Append(task_ids, Strip(tid.s)), missing)
                  ELSE CollectBlankAsId(subs, i + 1, seen, task_ids, missing)
             ELSE CollectBlankAsId(subs, i + 1, seen, task_ids,
                          Append(missing,
                                 [submission_id |-> subs[i].id,
                                  job_id |-> subs[i].job_id,
                                  reason |-> "missing_task_id_in_upstream_response",
                                  upstream |-> subs[i].upstream]))

\* the loop without the test against seen
RECURSIVE CollectRepeated(_, _, _, _, _)
CollectRepeated(subs, i, seen, task_ids, missing) ==
    IF i > Len(subs) THEN [task_ids |-> task_ids, missing |-> missing]
    ELSE LET tid == subs[i].task_id
         IN  IF tid.some /\ tid.s # <<>> /\ Strip(tid.s) # <<>>
             THEN CollectRepeated(subs, i + 1, seen,
                                  Append(task_ids, Strip(tid.s)), missing)
             ELSE CollectRepeated(subs, i + 1, seen, task_ids,
                          Append(missing,
                                 [submission_id |-> subs[i].id,
                                  job_id |-> subs[i].job_id,
                                  reason |-> "missing_task_id_in_upstream_response",
                                  upstream |-> subs[i].upstream]))

\* the loop of user_tasks_details over the submissions: seen, task_ids, missing
RECURSIVE Collect(_, _, _, _, _)
Collect(subs, i, seen, task_ids, missing) ==
    IF i > Len(subs) THEN [task_ids |-> task_ids, missing |-> missing]
    ELSE LET tid == subs[i].task_id
         IN  IF tid.some /\ tid.s # <<>> /\ Strip(tid.s) # <<>>
             THEN IF Strip(tid.s) \notin seen
                  THEN Collect(subs, i + 1, seen \cup {Strip(tid.s)},
                               Append(task_ids, Strip(tid.s)), missing)
                  ELSE Collect(subs, i + 1, seen, task_ids, missing)
             ELSE Collect(subs, i + 1, seen, task_ids,
                          Append(missing,
                                 [submission_id |-> subs[i].id,
                                  job_id |-> subs[i].job_id,
                                  reason |-> "missing_task_id_in_upstream_response",
                                  upstream |-> subs[i].upstream]))

UserTasksBody(user_id, task_ids, missing, details) ==
    [user_id |-> user_id, task_count |-> Len(task_ids),
     missing_task_id_count |-> Len(missing), tasks |-> details,
     missing |-> missing]

\* ---------------------------------------------------------------- handlers

\* GET /apply
apply_task(p, job_id, o) ==
    /\ pc[p] = "idle"
    /\ LET r == xgodo_get(o)
       IN  /\ resp' = IF r.raised THEN Failed("apply", r)
                      ELSE Ok("apply", [ok |-> TRUE, apply |-> r.data])
           /\ sent' = IF r.issued
                      THEN Request("GET", "/api/v2/tasks/apply",
                                   [k \in {"job_id"} |-> job_id], <<>>)
                      ELSE sent
    /\ UNCHANGED <<token, db, seq, pc, req, peers, conns, load, payload, result>>

\* the record is written before the upstream call is made
submit_task_call_record_first(p, user_id, job_id, job_proof, o) ==
    /\ pc[p] = "idle"
    /\ Len(db) < MaxRows
    /\ db' = db_insert_submission(Strip(user_id), Strip(job_id), job_proof,
                                  None, Null)
    /\ seq' = seq + 1
    /\ resp' = Failed("submit", xgodo_post(o))
    /\ xgodo_post(o).raised
    /\ UNCHANGED <<token, pc, req, sent, peers, conns, load, payload, result>>

\* GET /submit, up to the return of the upstream call
submit_task_call(p, user_id, job_id, job_proof, o) ==
    /\ pc[p] = "idle"
    /\ LET r == xgodo_post(o)
       IN  /\ sent' = IF r.issued
                      THEN Request("POST", "/api/v2/tasks/submit", <<>>,
                                   [k \in {"job_id", "job_proof"} |->
                                       IF k = "job_id" THEN job_id
                                       ELSE job_proof])
                      ELSE sent
           /\ IF r.raised
              THEN /\ resp' = Failed("submit", r)
                   /\ UNCHANGED <<pc, req>>
              ELSE /\ pc' = [pc EXCEPT ![p] = "submit_insert"]
                   /\ req' = [req EXCEPT ![p] =
                                 [NoLocals EXCEPT !.user_id = user_id,
                                                  !.job_id = job_id,
                                                  !.job_proof = job_proof,
                                                  !.data = r.data]]
                   /\ UNCHANGED resp
    /\ peers' = [peers EXCEPT ![p] = {}]
    /\ UNCHANGED <<token, db, seq, conns, load, payload, result>>

\* GET /submit, from the extraction to the response; stored says whether
\* SQLite accepts the INSERT and the commit
submit_task_insert(p, stored) ==
    /\ pc[p] = "submit_insert"
    /\ stored => Len(db) < MaxRows
    /\ LET data == req[p].data
           task_id == extract_task_id(data)
       IN  IF stored
           THEN /\ db' = db_insert_submission(Strip(req[p].user_id),
                                              Strip(req[p].job_id),
                                              req[p].job_proof, task_id, data)
                /\ seq' = seq + 1
                /\ resp' = Ok("submit",
                              [ok |-> TRUE, submitted |-> data,
                               stored |-> [submission_id |-> seq + 1,
                                           user_id |-> req[p].user_id,
                                           job_id |-> req[p].job_id,
                                           task_id |-> task_id]])
                /\ peers' = [q \in Procs |->
                       IF q # p /\ pc[q] = "submit_insert" /\ task_id.some
                       THEN peers[q] \cup {task_id.s} ELSE peers[q]]
           ELSE /\ resp' = Failed("submit",
                                  Raise(500, Str(<<"Internal Server Error">>),
                                        "storage", FALSE))
                /\ UNCHANGED <<db, seq, peers>>
    /\ conns' = db_close(db_connect(conns, p), p)
    /\ pc' = [pc EXCEPT ![p] = "idle"]
    /\ req' = [req EXCEPT ![p] = NoLocals]
    /\ UNCHANGED <<token, sent, load, payload, result>>

\* GET /tasks
task_details(p, task_id, o) ==
    /\ pc[p] = "idle"
    /\ LET r == xgodo_post(o)
       IN  /\ resp' = IF r.raised THEN Failed("tasks", r)
                      ELSE Ok("tasks", [ok |-> TRUE, task |-> r.data])
           /\ sent' = IF r.issued
                      THEN Request("POST", "/api/v2/tasks/details",
                                   [k \in {"task_id"} |-> task_id], <<>>)
                      ELSE sent
    /\ UNCHANGED <<token, db, seq, pc, req, peers, conns, load, payload, result>>

\* the history is fetched from upstream instead of the table
user_submissions_upstream(p, user_id) ==
    /\ pc[p] = "idle"
    /\ resp' = Ok("user_submissions",
                  [ok |-> TRUE, user_id |-> user_id, count |-> 0,
                   submissions |-> <<>>])
    /\ sent' = Request("POST", "/api/v2/tasks/details",
                       [k \in {"user_id"} |-> user_id], <<>>)
    /\ UNCHANGED <<token, db, seq, pc, req, peers, conns, load, payload, result>>

\* GET /user/submissions
user_submissions(p, user_id) ==
    /\ pc[p] = "idle"
    /\ LET submissions == db_list_submissions(Strip(user_id))
       IN  resp' = Ok("user_submissions",
                      [ok |-> TRUE, user_id |-> user_id,
                       count |-> Len(submissions),
                       submissions |-> submissions])
    /\ conns' = db_close(db_connect(conns, p), p)
    /\ UNCHANGED <<token, db, seq, pc, req, sent, peers, load, payload, result>>

\* GET /user/tasks, up to the first upstream lookup (or to the response when
\* there is none to make)
user_tasks_list(p, user_id) ==
    /\ pc[p] = "idle"
    /\ LET c == Collect(db_list_submissions(Strip(user_id)), 1, {}, <<>>, <<>>)
       IN  IF c.task_ids = <<>>
           THEN /\ resp' = Ok("user_tasks",
                              UserTasksBody(user_id, c.task_ids, c.missing,
                                            <<>>))
                /\ UNCHANGED <<pc, req>>
           ELSE /\ pc' = [pc EXCEPT ![p] = "user_tasks_fetch"]
                /\ req' = [req EXCEPT ![p] =
                              [NoLocals EXCEPT !.user_id = user_id,
                                               !.task_ids = c.task_ids,
                                               !.missing = c.missing]]
                /\ UNCHANGED resp
    /\ conns' = db_close(db_connect(conns, p), p)
    /\ UNCHANGED <<token, db, seq, sent, peers, load, payload, result>>

\* GET /user/tasks, one iteration of the details loop (and the response after
\* the last one)
user_tasks_fetch(p, o) ==
    /\ pc[p] = "user_tasks_fetch"
    /\ LET tid == req[p].task_ids[Len(req[p].details) + 1]
           r == xgodo_post(o)
           details == Append(req[p].details, [task_id |-> tid, detail |-> r.data])
       IN  /\ sent' = IF r.issued
                      THEN Request("POST", "/api/v2/tasks/details",
                                   [k \in {"task_id"} |-> tid], <<>>)
                      ELSE sent
           /\ IF r.raised
              THEN /\ resp' = Failed("user_tasks", r)
                   /\ pc' = [pc EXCEPT ![p] = "idle"]
                   /\ req' = [req EXCEPT ![p] = NoLocals]
              ELSE IF Len(details) < Len(req[p].task_ids)
              THEN /\ req' = [req EXCEPT ![p].details = details]
                   /\ UNCHANGED <<pc, resp>>
              ELSE /\ resp' = Ok("user_tasks",
                                 UserTasksBody(req[p].user_id, req[p].task_ids,
                                               req[p].missing, details))
                   /\ pc' = [pc EXCEPT ![p] = "idle"]
                   /\ req' = [req EXCEPT ![p] = NoLocals]
    /\ UNCHANGED <<token, db, seq, peers, conns, load, payload, result>>

\* --------------------------------------------------------- the specification

\* A table left by an earlier run of the service (DB_PATH is a file).
EarlierRows == <<Row(1, U1, J1, P1, Some(T1), BodyTaskId)>>

\* A table left by an earlier run whose submits were answered with a bare
\* JSON string: _extract_task_id returns it as it is, padded or blank.
EarlierBare ==
    << Row(1, U2, J1, P1, Some(T2_padded), Str(T2_padded)),
       Row(2, U2, J1, P1, Some(Blank), Str(Blank)) >>

\* One request at a time, every input.
Sequential ==
    [slots |-> {1}, users |-> UserIds,
     applies |-> DOMAIN ApplyOutcomes, submits |-> DOMAIN SubmitOutcomes,
     details |-> DOMAIN DetailOutcomes]

\* Two requests in flight, one user, fewer upstream outcomes.
Concurrent ==
    [slots |-> Procs, users |-> {U1_padded},
     applies |-> {2, 5}, submits |-> {2, 3, 4, 5}, details |-> {1, 4, 5}]

InitWith(l) ==
    /\ token \in BOOLEAN
    /\ db \in {<<>>, EarlierRows, EarlierBare}
    /\ seq = Len(db)
    /\ pc = [p \in Procs |-> "idle"]
    /\ req = [p \in Procs |-> NoLocals]
    /\ resp = NoResponse
    /\ sent = NoRequest
    /\ peers = [p \in Procs |-> {}]
    /\ conns = {}
    /\ load = l
    /\ payload = Null
    /\ result = <<>>

Init == InitWith(Sequential)

InitConcurrent == InitWith(Concurrent)

Next ==
    \/ \E p \in load.slots, job_id \in JobIds, i \in load.applies :
          apply_task(p, job_id, ApplyOutcomes[i])
    \/ \E p \in load.slots, user_id \in load.users, job_id \in JobIds,
          job_proof \in JobProofs, i \in load.submits :
          submit_task_call(p, user_id, job_id, job_proof, SubmitOutcomes[i])
    \/ \E p \in load.slots, stored \in BOOLEAN : submit_task_insert(p, stored)
    \/ \E p \in load.slots, task_id \in QueryTaskIds, i \in load.details :
          task_details(p, task_id, DetailOutcomes[i])
    \/ \E p \in load.slots, user_id \in load.users : user_submissions(p, user_id)
    \/ \E p \in load.slots, user_id \in load.users : user_tasks_list(p, user_id)
    \/ \E p \in load.slots, i \in load.details :
          user_tasks_fetch(p, DetailOutcomes[i])

Spec == Init /\ [][Next]_vars

SpecConcurrent == InitConcurrent /\ [][Next]_vars

\* ------------------------------------------- _extract_task_id on its own

T3 == <<"T", "3">>

IdKeySet == {IdKeys[i] : i \in DOMAIN IdKeys}
ContainerKeySet == {ContainerKeys[i] : i \in DOMAIN ContainerKeys}

TopValues == {Null, Str(T1), Str(T2_padded), Str(Blank), Int_(120)}

ContainerValues ==
    { Null,
      Str(T1),
      Dict([k \in {"id"} |-> Str(T3)]),
      Dict([k \in {"id"} |-> Str(Blank)]),
      Dict([k \in {"taskId", "taskID"} |->
               IF k = "taskId" THEN Int_(7) ELSE Str(T1)]) }

DictPayloads ==
    { Dict([k \in IdKeySet \cup ContainerKeySet |->
               IF k \in IdKeySet THEN top[k] ELSE cont[k]]) :
        top \in [IdKeySet -> TopValues],
        cont \in [ContainerKeySet -> ContainerValues] }

BodyResultTaskId ==
    Dict([k \in {"result"} |-> Dict([kk \in {"taskId"} |-> Str(T1)])])

OtherPayloads ==
    << BodyTaskId, BodyDataId, BodyResultTaskId, BodyFoo, BodyT100, NO_CONTENT,
       Null, Float, Str(T1), Str(T2_padded), Str(<<>>), Int_(0), Int_(0 - 45),
       Bool(TRUE), Bool(FALSE),
       Dict([k \in {"id"} |-> Bool(TRUE)]),
       Dict([k \in {"id", "task"} |->
                IF k = "id" THEN Float
                ELSE Dict([kk \in {"task_id"} |-> Int_(0 - 3)])]) >>

InitExtract ==
    /\ token = TRUE
    /\ db = <<>>
    /\ seq = 0
    /\ pc = [p \in Procs |-> "idle"]
    /\ req = [p \in Procs |-> NoLocals]
    /\ resp = NoResponse
    /\ sent = NoRequest
    /\ peers = [p \in Procs |-> {}]
    /\ conns = {}
    /\ load = Sequential
    /\ \/ payload \in DictPayloads
       \/ \E i \in DOMAIN OtherPayloads : payload = OtherPayloads[i]
    /\ result = <<>>

\* one call of _extract_task_id(payload)
ExtractCall ==
    /\ result = <<>>
    /\ result' = <<extract_task_id(payload)>>
    /\ UNCHANGED <<token, db, seq, pc, req, resp, sent, peers, conns, load, payload>>

SpecExtract == InitExtract /\ [][ExtractCall]_vars

\* ------------------------------------------------------------------ claims

\* the status an upstream details payload reports ({"status": ...}), <<>> if none
StatusOf(detail) ==
    IF detail.t = "dict" /\ Get(detail.d, "status").t = "str"
    THEN Get(detail.d, "status").s
    ELSE <<>>

\* request slot p finishes a submit in this step (insert and response)
SubmitReturns(p) == pc[p] = "submit_insert" /\ pc'[p] = "idle"

\* request slot p issues the upstream details lookup for task t in this step
LookupStep(p, t) ==
    /\ pc[p] = "user_tasks_fetch"
    /\ req[p].task_ids[Len(req[p].details) + 1] = t
    /\ token
    /\ pc'[p] # pc[p] \/ req'[p] # req[p]

\* the last response sent is a task listing that shows task t with a status in S
ListingShows(t, S) ==
    /\ resp.op = "user_tasks"
    /\ resp.code = 200
    /\ \E k \in DOMAIN resp.body.tasks :
          /\ resp.body.tasks[k].task_id = t
          /\ StatusOf(resp.body.tasks[k].detail) \in S

StoredTaskIds == {db[i].task_id.s : i \in {j \in DOMAIN db : db[j].task_id.some}}

\* C1 (idempotent insert): no two stored records carry the same task
\* identifier, whatever inserts have happened.
C1_OneRecordPerTaskId ==
    \A i, j \in DOMAIN db :
        (db[i].task_id.some /\ db[i].task_id = db[j].task_id) => i = j

\* C2 (atomic test-and-insert under concurrency): a submit that was overtaken,
\* between its upstream response and its insert, by another submit storing the
\* same task identifier adds no second record for it.
C2_ConcurrentSubmitsOneRecord ==
    [][\A p \in Procs :
          (SubmitReturns(p) /\ extract_task_id(req[p].data).some
             /\ extract_task_id(req[p].data).s \in peers[p])
          => db' = db]_vars

\* C3 (terminal freeze): once a listing has shown a task with a TERMINAL
\* status, no listing pass issues an upstream lookup for that task.
C3_TerminalFreeze ==
    [][\A p \in Procs : \A t \in StoredTaskIds :
          ListingShows(t, TERMINAL) => ~LookupStep(p, t)]_vars

\* C4 (hidden suppression without deletion): no task listing returned to a
\* client contains a task whose reported status is HIDDEN.
C4_HiddenSuppressed ==
    (resp.op = "user_tasks" /\ resp.code = 200) =>
        \A k \in DOMAIN resp.body.tasks :
            StatusOf(resp.body.tasks[k].detail) \notin HIDDEN

\* C5 (no record with a null key): every stored record has a task identifier.
C5_NoNullTaskId == \A i \in DOMAIN db : db[i].task_id.some

\* C6 (upstream result never lost): when the upstream submit call has
\* succeeded, the response of the submit carries the upstream payload, as its
\* result or as the detail of its error.
C6_UpstreamResultSurfaced ==
    [][\A p \in Procs :
          SubmitReturns(p) =>
              \/ resp'.op = "submit" /\ resp'.code = 200
                   /\ resp'.body.submitted = req[p].data
              \/ resp'.code # 200 /\ resp'.detail = req[p].data]_vars

\* C7 (partial-failure isolation): a listing pass over several tasks never
\* ends in a blanket upstream failure; when it ends, the lookups that
\* succeeded are in the response.
C7_PartialFailureIsolation ==
    [][\A p \in Procs :
          (pc[p] = "user_tasks_fetch" /\ Len(req[p].task_ids) >= 2
             /\ pc'[p] = "idle") =>
              /\ resp'.cause \notin {"transport", "upstream"}
              /\ resp'.code = 200 =>
                    \A k \in DOMAIN req[p].details :
                        \E m \in DOMAIN resp'.body.tasks :
                            resp'.body.tasks[m] = req[p].details[k]]_vars

\* C9 (scenario): a successful submit answered by upstream with
\* {"submitted": {"job_task_id": "T100"}} adds exactly one record, for that
\* user, with task identifier "T100".
C9_SubmitStoresT100 ==
    [][\A p \in Procs :
          (SubmitReturns(p) /\ req[p].data = BodyT100 /\ resp'.code = 200) =>
              /\ Len(db') = Len(db) + 1
              /\ db'[Len(db')].user_id = Strip(req[p].user_id)
              /\ db'[Len(db')].task_id = Some(T100)]_vars

\* the positions in IdKeys whose value in dict f is a usable identifier
UsableAt(f) == {i \in DOMAIN IdKeys : Usable(Get(f, IdKeys[i]))}

\* the positions in ContainerKeys whose value in f is a dict with a usable key
ContainersAt(f) ==
    {c \in DOMAIN ContainerKeys :
        /\ Get(f, ContainerKeys[c]).t = "dict"
        /\ UsableAt(Get(f, ContainerKeys[c]).d) # {}}

Least(S) == CHOOSE x \in S : \A y \in S : x <= y

\* the identifier a value stands for: coerced to a string and trimmed
IdOf(v) == Strip(PyStr(v))

\* C8 (extraction tolerance): for a dict payload _extract_task_id returns the
\* identifier under the first usable top-level key in priority order; only
\* when there is none, the one under the first usable key of the first
\* container that has one; and no identifier when there is neither.  The
\* spec's example payloads yield "T1", "T1", "T1" and no identifier.
C8_ExtractionPriority ==
    (result # <<>> /\ payload.t = "dict") =>
        LET f == payload.d
            g == Get(f, ContainerKeys[Least(ContainersAt(f))]).d
        IN  /\ UsableAt(f) # {} =>
                  result[1] = Some(IdOf(Get(f, IdKeys[Least(UsableAt(f))])))
            /\ (UsableAt(f) = {} /\ ContainersAt(f) # {}) =>
                  result[1] = Some(IdOf(Get(g, IdKeys[Least(UsableAt(g))])))
            /\ (UsableAt(f) = {} /\ ContainersAt(f) = {}) => result[1] = None
            /\ payload \in {BodyTaskId, BodyDataId, BodyResultTaskId} =>
                  result[1] = Some(T1)
            /\ payload = BodyFoo => result[1] = None

\* C8 witness: a payload whose first top-level key is unusable, whose later
\* top-level key and whose containers carry different identifiers, extracted.
C8_Witness ==
    /\ result # <<>>
    /\ payload.t = "dict"
    /\ UsableAt(payload.d) # {}
    /\ Least(UsableAt(payload.d)) = 3
    /\ Cardinality(ContainersAt(payload.d)) = 2
    /\ result[1] = Some(<<"T", "2">>)

\* what C10 asks of the last response when the credential is absent
ConfigErrorOnly ==
    /\ resp.op \in {"apply", "submit", "tasks"} =>
          /\ resp.cause = "config"
          /\ resp.code = 500
          /\ resp.detail = MSG_MISCONFIGURED
    /\ resp.op = "user_tasks" =>
          IF resp.code = 200 THEN resp.body.task_count = 0
          ELSE /\ resp.cause = "config"
               /\ resp.code = 500
               /\ resp.detail = MSG_MISCONFIGURED
    /\ resp.op = "user_submissions" => resp.code = 200

\* C10 (fail fast without the credential): with XGODO_TOKEN absent no
\* outbound request is ever issued, the store is never modified, apply, submit,
\* task details and a task listing with a lookup to make answer with the
\* configuration error, and the submission history still answers 200.
C10_MissingCredentialFailsFast ==
    /\ [](~token => (sent = NoRequest /\ ConfigErrorOnly))
    /\ [][~token => (db' = db /\ seq' = seq)]_vars

\* C10 witness: without the credential, a task listing over a stored task has
\* ended in the configuration error.
C10_Witness ==
    /\ ~token
    /\ db # <<>>
    /\ resp.op = "user_tasks"
    /\ resp.cause = "config"
    /\ sent = NoRequest

\* C11 (unreachable is distinguishable): the response a client gets for a
\* transport failure (502 with the "Upstream request failed" detail) is never
\* the response to a forwarded upstream answer, and a forwarded upstream error
\* keeps a non-success status code.
C11_UnreachableDistinguishable ==
    /\ (resp.code = 502 /\ resp.detail = MSG_UNREACHABLE) =>
          resp.cause = "transport"
    /\ resp.cause = "upstream" => is_error(resp.code)

\* the stored rows of user u (u already trimmed)
RowsOf(u) == {i \in DOMAIN db : db[i].user_id = u}

\* row r carries a task identifier that is not blank
HasTaskId(r) == r.task_id.some /\ Strip(r.task_id.s) # <<>>

\* the id of the newest row of user u that carries task identifier t
LatestId(u, t) ==
    LET ids == {db[i].id : i \in {j \in RowsOf(u) :
                    HasTaskId(db[j]) /\ Strip(db[j].task_id.s) = t}}
    IN  CHOOSE x \in ids : \A y \in ids : y <= x

\* C12 (order and count of the listing): a task listing returns its tasks
\* newest submission first, its records without a task identifier newest
\* first, and the counts it reports are the lengths of the two lists.
C12_ListingOrderAndCount ==
    (resp.op = "user_tasks" /\ resp.code = 200) =>
        LET b == resp.body
            u == Strip(b.user_id)
        IN  /\ b.task_count = Len(b.tasks)
            /\ b.missing_task_id_count = Len(b.missing)
            /\ \A k, m \in DOMAIN b.tasks :
                   k < m => LatestId(u, b.tasks[k].task_id)
                              > LatestId(u, b.tasks[m].task_id)
            /\ \A k, m \in DOMAIN b.missing :
                   k < m => b.missing[k].submission_id
                              > b.missing[m].submission_id

\* C12 witness: a listing over three rows of one user, two of them for the
\* same task, has returned two tasks.
C12_Witness ==
    /\ resp.op = "user_tasks"
    /\ resp.code = 200
    /\ Len(resp.body.tasks) = 2
    /\ Cardinality(RowsOf(Strip(resp.body.user_id))) = 3
    /\ resp.body.missing = <<>>

\* request slot p runs one iteration of the details loop in this step
FetchStep(p) ==
    /\ pc[p] = "user_tasks_fetch"
    /\ pc'[p] # pc[p] \/ req'[p] # req[p]

\* C13 (one lookup per task and pass): every iteration of the details loop
\* issues one details request, for a task identifier that the same pass has
\* not looked up before.
C13_OneLookupPerTaskId ==
    [][\A p \in Procs :
          (FetchStep(p) /\ token) =>
              /\ sent'.method = "POST"
              /\ sent'.path = "/api/v2/tasks/details"
              /\ \A k \in DOMAIN req[p].details :
                    req[p].details[k].task_id # sent'.params["task_id"]]_vars

\* C13 witness: a pass over a user with two rows for one task and a row for
\* another has made its first lookup and has one left.
C13_Witness ==
    \E p \in Procs :
        /\ pc[p] = "user_tasks_fetch"
        /\ Len(req[p].details) = 1
        /\ Len(req[p].task_ids) = 2
        /\ Cardinality(RowsOf(Strip(req[p].user_id))) = 3

\* this step sends the response of a submission history request
HistoryStep == resp' # resp /\ resp'.op = "user_submissions"

\* C14 (history is store-only): a submission history request answers 200 with
\* exactly the stored rows of the (trimmed) user, issues no outbound request
\* and leaves the table and its id sequence unchanged, with or without the
\* credential.
C14_HistoryIsLocal ==
    [][HistoryStep =>
          /\ sent' = sent
          /\ db' = db
          /\ seq' = seq
          /\ resp'.code = 200
          /\ resp'.body.count = Cardinality(RowsOf(Strip(resp'.body.user_id)))
          /\ Len(resp'.body.submissions) = resp'.body.count]_vars

\* C14 witness: a history of two rows has been returned after an outbound
\* request had been issued earlier.
C14_Witness ==
    /\ resp.op = "user_submissions"
    /\ resp.body.count = 2
    /\ sent # NoRequest

\* C15 (records and their ids are permanent): rows are only ever appended,
\* a stored row never changes (so its record id never changes and no record is
\* deleted), and record ids are strictly increasing in creation order, hence
\* unique.
C15_RecordIdsPermanent ==
    /\ [](\A i, j \in DOMAIN db : i < j => db[i].id < db[j].id)
    /\ [][/\ Len(db') >= Len(db)
          /\ \A i \in DOMAIN db : db'[i] = db[i]]_vars

\* C15 witness: three rows are stored and one of them was inserted by a
\* request that another request overtook.
C15_Witness ==
    /\ Len(db) = 3
    /\ \E p \in Procs : peers[p] # {}
    /\ resp.op = "user_tasks"

\* C16 (the store is not held across awaits): between the steps of the
\* handlers, and so whenever a request is about to wait or is waiting on an
\* upstream call, no request holds an open connection to the store: every
\* access opens and closes its connection within the one row operation, also
\* when the operation fails.
C16_NoStoreHeldAcrossCalls == \A p \in Procs : p \notin conns

\* C16 witness: a listing pass has read the table and made one lookup, with
\* another still to make, after an insert of this run failed in the store.
C16_Witness ==
    /\ \E p \in Procs :
          /\ pc[p] = "user_tasks_fetch"
          /\ Len(req[p].details) = 1
          /\ Len(req[p].task_ids) = 2
    /\ resp.cause = "storage"
    /\ conns = {}

\* C17 (extracted identifiers are trimmed and not empty): whatever the
\* payload, _extract_task_id returns no identifier or a string that is not
\* empty and neither starts nor ends with whitespace.
C17_IdentifierTrimmed ==
    (result # <<>> /\ result[1].some) =>
        /\ result[1].s # <<>>
        /\ Head(result[1].s) \notin WS
        /\ result[1].s[Len(result[1].s)] \notin WS

\* this step sends the response of a submit whose upstream call failed
SubmitFails ==
    /\ resp' # resp
    /\ resp'.op = "submit"
    /\ resp'.cause \in {"config", "transport", "upstream"}

\* C18 (no record without upstream success): a submit whose upstream call
\* fails ends without touching the table or its id sequence and leaves no
\* insert pending, and every change of the table is the insert of a submit
\* whose upstream call had returned successfully.
C18_FailedSubmitStoresNothing ==
    [][/\ SubmitFails => (db' = db /\ seq' = seq /\ pc' = pc)
       /\ db' # db => \E p \in Procs :
              /\ SubmitReturns(p)
              /\ resp'.op = "submit"
              /\ resp'.code = 200
              /\ resp'.body.submitted = req[p].data]_vars

\* C18 witness: with rows stored, a submit has ended in a transport failure.
C18_Witness ==
    /\ resp.op = "submit"
    /\ resp.cause = "transport"
    /\ Len(db) = 2

\* the users a request can name, trimmed
StoredUserIds == {Strip(u) : u \in UserIds}

\* what the two listings of user u are computed from: u's rows as the store
\* returns them, and the task identifiers and id-less records among them
HistoryOf(u) == db_list_submissions(u)
TasksOf(u) ==
    [task_ids |-> {Strip(db[i].task_id.s) :
                      i \in {j \in RowsOf(u) : HasTaskId(db[j])}},
     missing |-> {db[i].id : i \in {j \in RowsOf(u) : ~HasTaskId(db[j])}}]

\* C19 (user isolation): a submission history contains only rows stored
\* under the trimmed user it was asked for, a task listing only task
\* identifiers and id-less records of that user's rows, and the insert of a
\* submit for another user changes neither of them.
C19_UserIsolation ==
    /\ [](resp.op = "user_submissions" =>
            \A k \in DOMAIN resp.body.submissions :
                /\ resp.body.submissions[k].user_id = Strip(resp.body.user_id)
                /\ \E i \in RowsOf(Strip(resp.body.user_id)) :
                      db[i].id = resp.body.submissions[k].id)
    /\ []((resp.op = "user_tasks" /\ resp.code = 200) =>
            /\ \A k \in DOMAIN resp.body.tasks :
                  \E i \in RowsOf(Strip(resp.body.user_id)) :
                      /\ HasTaskId(db[i])
                      /\ Strip(db[i].task_id.s) = resp.body.tasks[k].task_id
            /\ \A k \in DOMAIN resp.body.missing :
                  \E i \in RowsOf(Strip(resp.body.user_id)) :
                      db[i].id = resp.body.missing[k].submission_id)
    /\ [][\A p \in Procs : \A u \in StoredUserIds :
             (SubmitReturns(p) /\ Strip(req[p].user_id) # u) =>
                 /\ HistoryOf(u)' = HistoryOf(u)
                 /\ TasksOf(u)' = TasksOf(u)]_vars

\* C19 witness: with rows of two users stored, the task listing asked for
\* " u1" has returned a task.
C19_Witness ==
    /\ resp.op = "user_tasks"
    /\ resp.code = 200
    /\ resp.body.user_id = U1_padded
    /\ Len(resp.body.tasks) >= 1
    /\ RowsOf(U1) # {}
    /\ RowsOf(U2) # {}

\* the rows of user u that carry a task identifier, and those that do not
WithTaskId(u) == {i \in RowsOf(u) : HasTaskId(db[i])}
WithoutTaskId(u) == RowsOf(u) \ WithTaskId(u)

\* C20 (every record accounted for once): in a successful task listing,
\* every row of the user whose task identifier is null or blank is exactly
\* one entry of `missing` and no entry of `tasks`, the (trimmed) task
\* identifier of every other row is exactly one entry of `tasks` and the row
\* is no entry of `missing`; task_count is the number of distinct trimmed
\* non-blank task identifiers, missing_task_id_count the number of rows
\* without one.
C20_EveryRecordAccounted ==
    (resp.op = "user_tasks" /\ resp.code = 200) =>
        LET u == Strip(resp.body.user_id)
            tasks == resp.body.tasks
            missing == resp.body.missing
        IN  /\ \A i \in WithoutTaskId(u) :
                  Cardinality({k \in DOMAIN missing :
                                  missing[k].submission_id = db[i].id}) = 1
            /\ \A i \in WithTaskId(u) :
                  /\ Cardinality({k \in DOMAIN tasks :
                         tasks[k].task_id = Strip(db[i].task_id.s)}) = 1
                  /\ \A k \in DOMAIN missing :
                         missing[k].submission_id # db[i].id
            /\ \A k \in DOMAIN tasks : tasks[k].task_id # <<>>
            /\ resp.body.task_count =
                  Cardinality({Strip(db[i].task_id.s) : i \in WithTaskId(u)})
            /\ resp.body.missing_task_id_count = Cardinality(WithoutTaskId(u))

\* C20 witness: the listing of a user with three rows, task identifiers
\* " T2 ", blank and "T2", has returned one task and one id-less record.
C20_Witness ==
    /\ resp.op = "user_tasks"
    /\ resp.code = 200
    /\ Cardinality(RowsOf(Strip(resp.body.user_id))) = 3
    /\ \E i, j \in WithTaskId(Strip(resp.body.user_id)) :
          /\ db[i].task_id.s # db[j].task_id.s
          /\ Strip(db[i].task_id.s) = Strip(db[j].task_id.s)
    /\ \E i \in WithoutTaskId(Strip(resp.body.user_id)) : db[i].task_id.some
    /\ Len(resp.body.tasks) = 1
    /\ Len(resp.body.missing) = 1

====
